---------------------------- MODULE Spec2Model ----------------------------
(***************************************************************************)
(* ANS expense pipeline: key normalisation and joins (etl/pipeline_sql.py, *)
(* backend/main.py, etl/enrichment.py), tax-id validation, registry column *)
(* mapping and the consolidation run of etl/processing.py.                 *)
(*                                                                         *)
(* Text values (identifiers, column names, file names, descriptions) are   *)
(* sequences of one-character strings, so that strip, upper, substring     *)
(* search and the regular-expression replacements are computed and not     *)
(* assumed.  A cell of a pandas column is a record [kind, s]:              *)
(*   kind "str"   an object/str cell holding the text s                    *)
(*   kind "int"   an int64 cell whose decimal rendering is s               *)
(*   kind "float" a float64 cell of integral value, rendered s ++ ".0"     *)
(*   kind "nan"   a missing value (NaN)                                    *)
(***************************************************************************)
EXTENDS Integers, Sequences, FiniteSets, TLC

VARIABLES
    pc,          \* position of the component under analysis
    exp_id,      \* RegistroANS cell of an expense row, as read from the CSV
    ops_id,      \* registry-id cell of a registry row, as read from the CSV
    exp_key,     \* the expense key after the pipeline's cleaning
    ops_key,     \* the registry key after the pipeline's cleaning
    matched,     \* whether the pipeline's join/filter pairs the two rows
    cnpj,        \* a cell of df_merged['CNPJ']
    CNPJ_Valido, \* the cell of df_merged['CNPJ_Valido'] computed from it
    header,      \* column names of the registry file as read
    columns,     \* the registry frame's columns after the mapper ran
    outcome,     \* "ok", "rejected" (diagnostic and return) or "crash"
    diag,        \* the column names the diagnostic lists
    files,       \* the CSV files glob finds in the data directory, in glob order
    idx,         \* position of process_data's loop over csv_files
    all_data,    \* process_data's list of filtered frames
    full_df,     \* the consolidated frame after the zero filter (line 128)
    out_csv,     \* consolidado_despesas.csv as written
    log,         \* the per-file warnings and errors printed
    df_fin,      \* the consolidated expense rows the join stages read
    df_cad,      \* the registry rows the join stages read
    df_merged,   \* run_enrichment_pipeline's left-joined frame
    df_grouped,  \* run_enrichment_pipeline's aggregated frame as saved
    stats,       \* the response of GET /api/estatisticas
    df_operators, \* backend: the global registry frame
    df_expenses, \* backend: the global expense frame
    req,         \* backend: the request being answered
    resp,        \* backend: the response to it
    raw_files,   \* re-run: the raw source files of the data directory
    out_file,    \* re-run: consolidado_despesas.csv in the data directory
    runs         \* re-run: number of completed runs of process_data

keyVars == <<exp_id, ops_id, exp_key, ops_key, matched>>
cnpjVars == <<cnpj, CNPJ_Valido>>
mapVars == <<header, columns, outcome, diag>>
procVars == <<files, idx, all_data, full_df, out_csv, log>>
joinVars == <<df_fin, df_cad, df_merged, df_grouped, stats>>
apiVars == <<df_operators, df_expenses, req, resp>>
rerunVars == <<raw_files, out_file, runs>>
extVars == <<joinVars, apiVars, rerunVars>>
vars == <<pc, keyVars, cnpjVars, mapVars, procVars, extVars>>

----------------------------------------------------------------------------
(* Bounds *)
MaxIdLen == 4
MaxCnpjLen == 15
MaxCols == 3
MaxRows == 1
MaxExp == 3

----------------------------------------------------------------------------
(* Text helpers *)

Str1(n, S) == UNION {[1..k -> S] : k \in 1..n}

IsSpace(c) == c = " "

Digits == {"0", "1", "2", "3", "4", "5", "6", "7", "8", "9"}

IsDigit(c) == c \in Digits

RECURSIVE LStrip(_)
LStrip(s) == IF s # <<>> /\ IsSpace(Head(s)) THEN LStrip(Tail(s)) ELSE s

RECURSIVE RStrip(_)
RStrip(s) ==
    IF s # <<>> /\ IsSpace(s[Len(s)]) THEN RStrip(SubSeq(s, 1, Len(s) - 1)) ELSE s

\* str.strip()
Strip(s) == RStrip(LStrip(s))

EndsWith(s, suf) ==
    /\ Len(s) >= Len(suf)
    /\ SubSeq(s, Len(s) - Len(suf) + 1, Len(s)) = suf

\* sub occurs in s as a contiguous substring ('sub' in s)
Contains(sub, s) ==
    \E i \in 0..(Len(s) - Len(sub)) : SubSeq(s, i + 1, i + Len(sub)) = sub

LowerCase ==
    <<"a", "b", "c", "d", "e", "f", "g", "h", "i", "j", "k", "l", "m", "n",
      "o", "p", "q", "r", "s", "t", "u", "v", "w", "x", "y", "z", "ç", "ã">>

UpperCase ==
    <<"A", "B", "C", "D", "E", "F", "G", "H", "I", "J", "K", "L", "M", "N",
      "O", "P", "Q", "R", "S", "T", "U", "V", "W", "X", "Y", "Z", "Ç", "Ã">>

\* the upper-case letter of each lower-case letter
UpperOf ==
    [c \in {LowerCase[i] : i \in 1..Len(LowerCase)} |->
        UpperCase[CHOOSE i \in 1..Len(LowerCase) : LowerCase[i] = c]]

UpperChar(c) == IF c \in DOMAIN UpperOf THEN UpperOf[c] ELSE c

\* str.upper()
Upper(s) == [i \in 1..Len(s) |-> UpperChar(s[i])]

\* the lower-case letter of each upper-case letter
LowerOf ==
    [c \in {UpperCase[i] : i \in 1..Len(UpperCase)} |->
        LowerCase[CHOOSE i \in 1..Len(UpperCase) : UpperCase[i] = c]]

LowerChar(c) == IF c \in DOMAIN LowerOf THEN LowerOf[c] ELSE c

\* str.lower()
Lower(s) == [i \in 1..Len(s) |-> LowerChar(s[i])]

\* str.replace(a, b) for one-character a and b
ReplaceChar(s, a, b) == [i \in 1..Len(s) |-> IF s[i] = a THEN b ELSE s[i]]

\* str.replace(a, '') for a one-character a
RECURSIVE RemoveChar(_, _)
RemoveChar(s, a) ==
    IF s = <<>> THEN <<>>
    ELSE IF Head(s) = a THEN RemoveChar(Tail(s), a)
    ELSE <<Head(s)>> \o RemoveChar(Tail(s), a)

\* the distinct-element sequences over S of length 1..n
DistinctSeqs(n, S) ==
    {s \in Str1(n, S) : \A i, j \in 1..Len(s) : i # j => s[i] # s[j]}

NaN == [kind |-> "nan", s |-> <<>>]

StrCell(s) == [kind |-> "str", s |-> s]

\* Series.astype(str) on one cell: str() of the value; a missing value
\* becomes the text 'nan'.
AsTypeStr(cell) ==
    CASE cell.kind = "str" -> cell.s
      [] cell.kind = "int" -> cell.s
      [] cell.kind = "float" -> cell.s \o <<".", "0">>
      [] OTHER -> <<"n", "a", "n">>

\* Series.str.replace(r'\.0$', '', regex=True): the pattern is anchored at
\* the end of the text, so at most one occurrence is removed.
StripDotZero(s) ==
    IF EndsWith(s, <<".", "0">>) THEN SubSeq(s, 1, Len(s) - 2) ELSE s

\* pipeline_sql.py: .astype(str).str.strip().str.replace(r'\.0$', '')
NormalizeSql(cell) == StripDotZero(Strip(AsTypeStr(cell)))

\* backend/main.py load_data: .astype(str).str.replace(r'\.0$', '')
NormalizeApi(cell) == StripDotZero(AsTypeStr(cell))

----------------------------------------------------------------------------
(* Cells an identifier column can hold after read_csv *)

IdChars == {"0", "1", ".", " "}

IdDigits == {"0", "1"}

\* decimal renderings of non-negative integers: no leading zero
Canonical == {s \in Str1(MaxIdLen, IdDigits) : Len(s) = 1 \/ s[1] # "0"}

\* read with dtype=str: text or missing
StrCells == {StrCell(s) : s \in Str1(MaxIdLen, IdChars)} \cup {NaN}

\* read with inferred dtype: int64, float64 or object
InferredCells ==
    StrCells \cup {[kind |-> k, s |-> s] : k \in {"int", "float"}, s \in Canonical}

----------------------------------------------------------------------------
(* pd.to_numeric(errors='coerce') on one cell.  A number is kept as its    *)
(* canonical form [ip, fp]: integer digits without leading zeros and       *)
(* fraction digits without trailing zeros; text that is no decimal         *)
(* literal becomes NaN.  Surrounding whitespace is skipped by the parser.  *)

RECURSIVE DropLeadingZeros(_)
DropLeadingZeros(s) ==
    IF s # <<>> /\ Head(s) = "0" THEN DropLeadingZeros(Tail(s)) ELSE s

RECURSIVE DropTrailingZeros(_)
DropTrailingZeros(s) ==
    IF s # <<>> /\ s[Len(s)] = "0"
    THEN DropTrailingZeros(SubSeq(s, 1, Len(s) - 1)) ELSE s

AllDigits(s) == \A i \in 1..Len(s) : IsDigit(s[i])

Num(ip, fp) == [kind |-> "num", ip |-> DropLeadingZeros(ip), fp |-> DropTrailingZeros(fp)]

NumNaN == [kind |-> "nan", ip |-> <<>>, fp |-> <<>>]

ParseNumber(text) ==
    LET t == Strip(text)
        dots == {i \in 1..Len(t) : t[i] = "."}
    IN  IF t = <<>> THEN NumNaN
        ELSE IF dots = {} THEN (IF AllDigits(t) THEN Num(t, <<>>) ELSE NumNaN)
        ELSE IF Cardinality(dots) > 1 THEN NumNaN
        ELSE LET d == CHOOSE i \in dots : TRUE
                 ip == SubSeq(t, 1, d - 1)
                 fp == SubSeq(t, d + 1, Len(t))
             IN  IF AllDigits(ip) /\ AllDigits(fp) /\ Len(ip) + Len(fp) > 0
                 THEN Num(ip, fp) ELSE NumNaN

ToNumeric(cell) ==
    CASE cell.kind = "str" -> ParseNumber(cell.s)
      [] cell.kind \in {"int", "float"} -> Num(cell.s, <<>>)
      [] OTHER -> NumNaN

----------------------------------------------------------------------------
(* Tax-id validation (enrichment.validate_cnpj) *)

CnpjLen == 14

\* str(x) of a scalar cell that is not missing
PyStr(cell) == AsTypeStr(cell)

\* re.sub(r'\D', '', s): every character that is no digit is removed
RECURSIVE ReSubNonDigits(_)
ReSubNonDigits(s) ==
    IF s = <<>> THEN <<>>
    ELSE IF IsDigit(Head(s)) THEN <<Head(s)>> \o ReSubNonDigits(Tail(s))
    ELSE ReSubNonDigits(Tail(s))

\* a slip that compares the length of the text as given
validate_cnpj_uncleaned(x) ==
    IF x.kind = "nan" THEN FALSE ELSE Len(PyStr(x)) = CnpjLen

validate_cnpj(x) ==
    IF x.kind = "nan" THEN FALSE
    ELSE LET clean_cnpj == ReSubNonDigits(PyStr(x))
         IN  Len(clean_cnpj) = CnpjLen

CnpjChars == {"7", "/"}

\* the spec's example, 12.345.678/0001-99
ExampleCnpj ==
    <<"1", "2", ".", "3", "4", "5", ".", "6", "7", "8", "/",
      "0", "0", "0", "1", "-", "9", "9">>

CnpjCells ==
    {StrCell(s) : s \in Str1(MaxCnpjLen, CnpjChars) \cup {ExampleCnpj}}
        \cup {[kind |-> k, s |-> [i \in 1..n |-> "7"]] :
                  k \in {"int", "float"}, n \in 1..MaxCnpjLen}
        \cup {NaN}

CnpjIdle == cnpj = NaN /\ CNPJ_Valido = FALSE

MapIdle == header = <<>> /\ columns = <<>> /\ outcome = "ok" /\ diag = <<>>

NoFrame == [cols |-> {}, rows |-> <<>>]

NoCsv == [cols |-> <<>>, rows |-> <<>>]

ProcIdle ==
    /\ files = <<>> /\ idx = 0 /\ all_data = <<>>
    /\ full_df = NoFrame /\ out_csv = NoCsv /\ log = <<>>

KeyIdle ==
    /\ exp_id = NaN /\ ops_id = NaN
    /\ exp_key = <<>> /\ ops_key = <<>> /\ matched = FALSE

NoStats == [status |-> "none", top_5_operadoras |-> <<>>, despesas_por_uf |-> <<>>]

JoinIdle ==
    /\ df_fin = <<>> /\ df_cad = <<>> /\ df_merged = <<>>
    /\ df_grouped = <<>> /\ stats = NoStats

NoRequest == [route |-> "none"]

NoResponse == [status |-> 0]

ApiIdle ==
    /\ df_operators = [cols |-> {}, rows |-> <<>>]
    /\ df_expenses = [cols |-> {}, rows |-> <<>>]
    /\ req = NoRequest /\ resp = NoResponse

\* no consolidado_despesas.csv in the data directory
NoOutput == [exists |-> FALSE, header |-> <<>>, rows |-> <<>>]

RerunIdle == raw_files = <<>> /\ out_file = NoOutput /\ runs = 0

ExtIdle == JoinIdle /\ ApiIdle /\ RerunIdle

InitCnpj ==
    /\ pc = "cnpj"
    /\ cnpj \in CnpjCells
    /\ CNPJ_Valido = FALSE
    /\ KeyIdle
    /\ MapIdle
    /\ ProcIdle
    /\ ExtIdle

\* df_merged['CNPJ_Valido'] = df_merged['CNPJ'].apply(validate_cnpj)
ApplyValidateCnpj ==
    /\ pc = "cnpj"
    /\ CNPJ_Valido' = validate_cnpj(cnpj)
    /\ pc' = "cnpj_done"
    /\ UNCHANGED <<cnpj, keyVars, mapVars, procVars, extVars>>

NextCnpj == ApplyValidateCnpj

SpecCnpj == InitCnpj /\ [][NextCnpj]_vars

\* C4: validate_cnpj(x) is true exactly when x is not missing and the text
\* form of x holds exactly 14 digit characters (the others are ignored).
C4_ValidCnpjIffFourteenDigits ==
    pc = "cnpj_done" =>
        LET text == PyStr(cnpj)
            digitAt == {i \in 1..Len(text) : text[i] \in Digits}
        IN  CNPJ_Valido = (cnpj # NaN /\ Cardinality(digitAt) = 14)

\* validated as true although the text also holds characters that are no digits
C4_Witness ==
    /\ pc = "cnpj_done"
    /\ CNPJ_Valido
    /\ Len(PyStr(cnpj)) > 14

----------------------------------------------------------------------------
(* Registry column mappers: enrichment.normalize_columns, the loop of      *)
(* pipeline_sql.run_pipeline and the loop of backend load_data.  A column  *)
(* of the mapped frame is [src, label]: the cleaned source name and the    *)
(* canonical label it was renamed to ("none": passed through unchanged).   *)

W_REGISTRO == <<"R", "E", "G", "I", "S", "T", "R", "O">>

W_OPERADORA == <<"O", "P", "E", "R", "A", "D", "O", "R", "A">>

W_ANS == <<"A", "N", "S">>

W_DATA == <<"D", "A", "T", "A">>

W_CNPJ == <<"C", "N", "P", "J">>

W_RAZAO == <<"R", "A", "Z", "A", "O">>

W_MODALIDADE == <<"M", "O", "D", "A", "L", "I", "D", "A", "D", "E">>

W_UF == <<"U", "F">>

REGISTRO_OPERADORA == W_REGISTRO \o <<"_">> \o W_OPERADORA

\* raw column names a registry file may carry
RegistryColumnNames ==
    { REGISTRO_OPERADORA,
      <<" ", "r", "e", "g", "i", "s", "t", "r", "o", "_", "a", "n", "s">>,
      <<"D", "A", "T", "A", "_", "R", "E", "G", "I", "S", "T", "R", "O", "_", "A", "N", "S">>,
      <<"C", "N", "P", "J">>,
      <<"R", "a", "z", "a", "o", " ", "S", "o", "c", "i", "a", "l">>,
      <<"U", "F">> }

Headers == DistinctSeqs(MaxCols, RegistryColumnNames)

Col(src, label) == [src |-> src, label |-> label]

Labels(cols) == {cols[i].label : i \in 1..Len(cols)}

\* a frame has two columns of that label: df[label] is then a DataFrame
Duplicated(cols, label) ==
    \E i, j \in 1..Len(cols) : i # j /\ cols[i].label = label /\ cols[j].label = label

\* enrichment.normalize_columns, step 1
CleanEnrich(c) ==
    ReplaceChar(
        ReplaceChar(
            RemoveChar(ReplaceChar(Upper(Strip(c)), " ", "_"), "."),
            "Ç", "C"),
        "Ã", "A")

\* enrichment.normalize_columns, step 2: the if/elif chain for one column
EnrichRule(col) ==
    IF col = REGISTRO_OPERADORA THEN "RegistroANS"
    ELSE IF Contains(W_REGISTRO, col) /\ Contains(W_ANS, col) /\ ~Contains(W_DATA, col)
         THEN "RegistroANS"
    ELSE IF Contains(W_CNPJ, col) THEN "CNPJ_Cad"
    ELSE IF Contains(W_RAZAO, col) THEN "RazaoSocial_Cad"
    ELSE IF Contains(W_MODALIDADE, col) THEN "Modalidade"
    ELSE IF col = W_UF THEN "UF"
    ELSE "none"

normalize_columns(hdr) ==
    [i \in 1..Len(hdr) |-> Col(CleanEnrich(hdr[i]), EnrichRule(CleanEnrich(hdr[i])))]

\* pipeline_sql: c.replace('"', '').strip().upper()
CleanSql(c) == Upper(Strip(RemoveChar(c, "\"")))

\* pipeline_sql: the loop body for column c, id_column_found being set or not
SqlRule(c, found) ==
    IF Contains(W_DATA, c) THEN "none"
    ELSE IF Contains(W_REGISTRO, c) /\ Contains(W_OPERADORA, c) THEN "registro_ans"
    ELSE IF Contains(W_REGISTRO, c) /\ Contains(W_ANS, c) /\ ~found THEN "registro_ans"
    ELSE IF Contains(W_RAZAO, c) THEN "razao_social"
    ELSE IF Contains(W_CNPJ, c) THEN "cnpj"
    ELSE IF Contains(W_UF, c) THEN "uf"
    ELSE IF Contains(W_MODALIDADE, c) THEN "modalidade"
    ELSE "none"

\* pipeline_sql: the loop over df_ops.columns, in header order
RECURSIVE SqlLoop(_, _)
SqlLoop(cs, found) ==
    IF cs = <<>> THEN <<>>
    ELSE LET label == SqlRule(Head(cs), found)
         IN  <<Col(Head(cs), label)>>
                 \o SqlLoop(Tail(cs), found \/ label = "registro_ans")

\* df.loc[:, ~df.columns.duplicated()]: of equal labels the first is kept
DropDuplicatedColumns(cols) ==
    LET Name(c) == IF c.label = "none" THEN c.src ELSE <<c.label>>
        keep == {i \in 1..Len(cols) : \A j \in 1..(i - 1) : Name(cols[j]) # Name(cols[i])}
        F[i \in 0..Len(cols)] ==
            IF i = 0 THEN <<>>
            ELSE IF i \in keep THEN Append(F[i - 1], cols[i]) ELSE F[i - 1]
    IN  F[Len(cols)]

\* backend load_data: c.upper().strip()
CleanApi(c) == Strip(Upper(c))

\* backend load_data: the if/elif chain for one column
ApiRule(col) ==
    IF col = REGISTRO_OPERADORA THEN "RegistroANS"
    ELSE IF Contains(W_REGISTRO, col) /\ Contains(W_ANS, col) /\ ~Contains(W_DATA, col)
         THEN "RegistroANS"
    ELSE IF Contains(W_CNPJ, col) THEN "CNPJ"
    ELSE IF Contains(W_RAZAO, col) THEN "RazaoSocial"
    ELSE IF Contains(W_UF, col) THEN "UF"
    ELSE IF Contains(W_MODALIDADE, col) THEN "Modalidade"
    ELSE "none"

InitMap ==
    /\ pc = "header"
    /\ header \in Headers
    /\ columns = <<>>
    /\ outcome = "ok"
    /\ diag = <<>>
    /\ KeyIdle
    /\ CnpjIdle
    /\ ProcIdle
    /\ ExtIdle

\* run_enrichment_pipeline lines 112-123: normalize_columns, the check for
\* 'RegistroANS' (diagnostic and return), then pd.to_numeric on the column,
\* which raises when two columns carry the label.
EnrichMapColumns ==
    /\ pc = "header"
    /\ LET cols == normalize_columns(header)
       IN  /\ columns' = cols
           /\ IF "RegistroANS" \notin Labels(cols)
              THEN /\ outcome' = "rejected"
                   /\ diag' = [i \in 1..Len(cols) |-> cols[i].src]
              ELSE /\ outcome' = IF Duplicated(cols, "RegistroANS") THEN "crash" ELSE "ok"
                   /\ diag' = <<>>
    /\ pc' = "map_enrich"
    /\ UNCHANGED <<header, keyVars, cnpjVars, procVars, extVars>>

\* run_pipeline lines 24-52: clean the names, the mapping loop, the check of
\* id_column_found (diagnostic and return), rename, drop duplicated columns.
SqlMapColumns ==
    /\ pc = "header"
    /\ LET cleaned == [i \in 1..Len(header) |-> CleanSql(header[i])]
           cols == SqlLoop(cleaned, FALSE)
       IN  IF "registro_ans" \notin Labels(cols)
           THEN /\ columns' = [i \in 1..Len(cleaned) |-> Col(cleaned[i], "none")]
                /\ outcome' = "rejected"
                /\ diag' = cleaned
           ELSE /\ columns' = DropDuplicatedColumns(cols)
                /\ outcome' = "ok"
                /\ diag' = <<>>
    /\ pc' = "map_sql"
    /\ UNCHANGED <<header, keyVars, cnpjVars, procVars, extVars>>

\* load_data lines 56-68 and 89-90: clean the names, the mapping chain,
\* rename; the key cleaning runs only if 'RegistroANS' is a column, and
\* .str raises (outside the try) when two columns carry the label.
ApiMapColumns ==
    /\ pc = "header"
    /\ LET cols == [i \in 1..Len(header) |->
                       Col(CleanApi(header[i]), ApiRule(CleanApi(header[i])))]
       IN  /\ columns' = cols
           /\ outcome' = IF Duplicated(cols, "RegistroANS") THEN "crash" ELSE "ok"
    /\ diag' = <<>>
    /\ pc' = "map_api"
    /\ UNCHANGED <<header, keyVars, cnpjVars, procVars, extVars>>

NextMap == EnrichMapColumns \/ SqlMapColumns \/ ApiMapColumns

SpecMap == InitMap /\ [][NextMap]_vars

\* the cleaned source names that the mapper turned into the registry id
IdSources == {columns[i].src : i \in {j \in 1..Len(columns) :
                                        columns[j].label \in {"RegistroANS", "registro_ans"}}}

HasExact == \E i \in 1..Len(header) : Upper(Strip(header[i])) = REGISTRO_OPERADORA

HasSubstringCandidate ==
    \E i \in 1..Len(header) :
        LET c == Upper(Strip(header[i]))
        IN  /\ c # REGISTRO_OPERADORA
            /\ Contains(W_REGISTRO, c) /\ Contains(W_ANS, c) /\ ~Contains(W_DATA, c)

\* C5: when the header holds a column named exactly REGISTRO_OPERADORA and
\* another one matching the substring rule, every mapper maps exactly one
\* source column to the registry id, the exact-name one, in either order.
C5_ExactNameWins ==
    (pc \in {"map_enrich", "map_sql", "map_api"} /\ HasExact /\ HasSubstringCandidate)
        => /\ IdSources = {REGISTRO_OPERADORA}
           /\ ~Duplicated(columns, "RegistroANS")
           /\ outcome = "ok"

----------------------------------------------------------------------------
(* Key component: one expense row against one registry row *)

InitKey ==
    /\ pc = "read"
    /\ exp_id \in InferredCells
    /\ ops_id \in InferredCells
    /\ exp_key = <<>>
    /\ ops_key = <<>>
    /\ matched = FALSE
    /\ CnpjIdle
    /\ MapIdle
    /\ ProcIdle
    /\ ExtIdle

\* pipeline_sql.run_pipeline: registry read with dtype=str, ids cleaned,
\* expenses kept when their cleaned id is in the set of registry ids.
SqlPipeline ==
    /\ pc = "read"
    /\ ops_id \in StrCells
    /\ ops_key' = NormalizeSql(ops_id)
    /\ exp_key' = NormalizeSql(exp_id)
    /\ matched' = (NormalizeSql(exp_id) \in {NormalizeSql(ops_id)})
    /\ pc' = "sql"
    /\ UNCHANGED <<exp_id, ops_id, cnpjVars, mapVars, procVars, extVars>>

\* backend load_data and the joins of get_operadora_expenses/get_statistics:
\* registry read with dtype=str, both keys cleaned, compared as text.
ApiLoadData ==
    /\ pc = "read"
    /\ ops_id \in StrCells
    /\ ops_key' = NormalizeApi(ops_id)
    /\ exp_key' = NormalizeApi(exp_id)
    /\ matched' = (NormalizeApi(exp_id) = NormalizeApi(ops_id))
    /\ pc' = "api"
    /\ UNCHANGED <<exp_id, ops_id, cnpjVars, mapVars, procVars, extVars>>

\* enrichment.run_enrichment_pipeline: both keys through pd.to_numeric, then
\* pd.merge(how='left'); merge pairs a missing key with a missing key.
EnrichMerge ==
    /\ pc = "read"
    /\ ops_key' = ToNumeric(ops_id)
    /\ exp_key' = ToNumeric(exp_id)
    /\ matched' = (ToNumeric(exp_id) = ToNumeric(ops_id))
    /\ pc' = "enrich"
    /\ UNCHANGED <<exp_id, ops_id, cnpjVars, mapVars, procVars, extVars>>

NextKey == SqlPipeline \/ ApiLoadData \/ EnrichMerge

SpecKey == InitKey /\ [][NextKey]_vars

----------------------------------------------------------------------------
(* Claims about the key component, checked under SpecKey *)

\* C1: registry-identifier normalisation is idempotent: cleaning a key that
\* a pipeline has already cleaned gives the same key, for every identifier
\* (also one ending in repeated '.0' or with whitespace before the suffix).
C1_NormalizeIdempotent ==
    /\ pc = "sql" =>
          /\ NormalizeSql(StrCell(exp_key)) = exp_key
          /\ NormalizeSql(StrCell(ops_key)) = ops_key
    /\ pc = "api" =>
          /\ NormalizeApi(StrCell(exp_key)) = exp_key
          /\ NormalizeApi(StrCell(ops_key)) = ops_key

\* Two identifier texts that differ, and differ only in leading zeros.
DifferOnlyInLeadingZeros(a, b) ==
    /\ a.kind = "str" /\ b.kind = "str"
    /\ AllDigits(a.s) /\ AllDigits(b.s)
    /\ a.s # b.s
    /\ DropLeadingZeros(a.s) = DropLeadingZeros(b.s)

\* C2: in every join (store loading, serving layer, enrichment) identifiers
\* that differ only in leading zeros are never treated as the same key.
C2_LeadingZerosKept ==
    (pc \in {"sql", "api", "enrich"} /\ DifferOnlyInLeadingZeros(exp_id, ops_id))
        => ~matched

\* C3: an expense row whose identifier is missing has the empty key and
\* matches no registry row in any join or membership filter, not even a
\* registry row whose identifier is missing too.
C3_MissingNeverMatches ==
    (pc \in {"sql", "api", "enrich"} /\ exp_id = NaN) =>
        /\ ~matched
        /\ pc \in {"sql", "api"} => exp_key = <<>>

----------------------------------------------------------------------------
(* process_data (etl/processing.py).  A cell of a frame is an optional     *)
(* value: <<>> is a missing value (NaN), <<v>> holds v.  A frame is        *)
(* [cols, rows]: the set of its column labels and the sequence of its      *)
(* rows, each row a record over RowFields whose absent columns are         *)
(* missing (what pd.concat fills in).                                      *)

Missing == <<>>

Some(v) == <<v>>

N_CD_OPERADORA == <<"C", "D", "_", "O", "P", "E", "R", "A", "D", "O", "R", "A">>

N_REG_ANS == <<"R", "E", "G", "_", "A", "N", "S">>

N_DT_REFERENCIA == <<"D", "T", "_", "R", "E", "F", "E", "R", "E", "N", "C", "I", "A">>

N_CD_CONTA_CONTABIL == <<"C", "D", "_", "C", "O", "N", "T", "A", "_", "C", "O", "N", "T", "A", "B", "I", "L">>

N_DESCRICAO == <<"D", "E", "S", "C", "R", "I", "C", "A", "O">>

N_VL_SALDO_FINAL == <<"V", "L", "_", "S", "A", "L", "D", "O", "_", "F", "I", "N", "A", "L">>

N_VL_SALDO_INICIAL == <<"V", "L", "_", "S", "A", "L", "D", "O", "_", "I", "N", "I", "C", "I", "A", "L">>

\* standardize_columns: the rename map, applied to a cleaned column name;
\* a name outside the map is kept as it is
column_map(c) ==
    IF c = N_CD_OPERADORA THEN "RegistroANS"
    ELSE IF c = N_REG_ANS THEN "RegistroANS"
    ELSE IF c = W_DATA THEN "Data"
    ELSE IF c = N_DT_REFERENCIA THEN "Data"
    ELSE IF c = N_CD_CONTA_CONTABIL THEN "CodigoConta"
    ELSE IF c = N_DESCRICAO THEN "Descricao"
    ELSE IF c = N_VL_SALDO_FINAL THEN "ValorDespesas"
    ELSE IF c = N_VL_SALDO_INICIAL THEN "ValorInicial"
    ELSE "(unmapped)"

\* standardize_columns: upper-case and strip every name, then rename
standardize_columns(hdr) == [i \in 1..Len(hdr) |-> column_map(Strip(Upper(hdr[i])))]

RowFields == {"RegistroANS", "CodigoConta", "Descricao", "ValorDespesas", "Ano", "Trimestre"}

\* the frame read from a file, under the standardized labels
StandardFrame(f) ==
    LET labels == standardize_columns(f.header)
        Cell(raw, lab) ==
            IF \E i \in 1..Len(labels) : labels[i] = lab
            THEN raw[CHOOSE i \in 1..Len(labels) : labels[i] = lab]
            ELSE Missing
    IN  [cols |-> {labels[i] : i \in 1..Len(labels)},
         rows |-> [k \in 1..Len(f.rows) |-> [lab \in RowFields |-> Cell(f.rows[k], lab)]]]

KW_EVENTOS == <<"E", "V", "E", "N", "T", "O", "S">>

KW_SINISTRO == <<"S", "I", "N", "I", "S", "T", "R", "O">>

\* a slip that matches the keywords case-sensitively
ContainsKeywordCaseSensitive(text) ==
    Contains(KW_EVENTOS, text) \/ Contains(KW_SINISTRO, text)

\* str.contains('EVENTOS|SINISTRO', case=False) on one text
ContainsKeyword(text) ==
    Contains(KW_EVENTOS, Upper(text)) \/ Contains(KW_SINISTRO, Upper(text))

\* the mask of line 85 on one row; na=False makes a missing description False
Mask(row) == row.Descricao # Missing /\ ContainsKeyword(row.Descricao[1])

\* df['Descricao'].str raises AttributeError when the column is not of
\* object dtype: a column whose every cell is missing is read as float64
StrAccessorRaises(df) ==
    /\ df.rows # <<>>
    /\ \A k \in 1..Len(df.rows) : df.rows[k].Descricao = Missing

Y2025 == <<"2", "0", "2", "5">>

\* lines 94-97
AnoOf(filename) == IF Contains(Y2025, filename) THEN 2025 ELSE 2023

\* lines 100-104
TrimestreOf(filename) ==
    IF Contains(<<"1", "T">>, filename) THEN "1T"
    ELSE IF Contains(<<"2", "T">>, filename) THEN "2T"
    ELSE IF Contains(<<"3", "T">>, filename) THEN "3T"
    ELSE IF Contains(<<"4", "T">>, filename) THEN "4T"
    ELSE "UNK"

\* df_filtered with the Ano and Trimestre columns assigned
Tagged(rows, filename) ==
    [k \in 1..Len(rows) |->
        [rows[k] EXCEPT !.Ano = Some(AnoOf(filename)),
                        !.Trimestre = Some(TrimestreOf(filename))]]

\* pd.concat(all_data, ignore_index=True)
RECURSIVE Concat(_)
Concat(frames) ==
    IF frames = <<>> THEN NoFrame
    ELSE LET rest == Concat(Tail(frames))
         IN  [cols |-> Head(frames).cols \cup rest.cols,
              rows |-> Head(frames).rows \o rest.rows]

\* a slip that leaves the concatenated rows as they are
KeepDuplicates(rows) == rows

\* DataFrame.drop_duplicates(): of equal rows the first is kept
DropDuplicates(rows) ==
    LET F[i \in 0..Len(rows)] ==
            IF i = 0 THEN <<>>
            ELSE IF \E j \in 1..(i - 1) : rows[j] = rows[i] THEN F[i - 1]
            ELSE Append(F[i - 1], rows[i])
    IN  F[Len(rows)]

\* a slip that keeps the positive amounts only, as the enrichment step does
PositiveAmount(row) == row.ValorDespesas # Missing /\ row.ValorDespesas[1] > 0

\* full_df['ValorDespesas'] != 0 on one row; NaN != 0 is True
NonZeroAmount(row) == row.ValorDespesas # Some(0)

Placeholder == "Unavailable (See Step 2.2)"

final_columns ==
    <<"RegistroANS", "CNPJ", "RazaoSocial", "Trimestre", "Ano", "ValorDespesas", "Descricao">>

\* lines 133-144 on one row: the placeholders, then the selected columns
FinalRow(row, keep) ==
    [c \in {keep[i] : i \in 1..Len(keep)} |->
        IF c \in {"CNPJ", "RazaoSocial"} THEN Some(Placeholder) ELSE row[c]]

\* lines 113-149 as a function of all_data: status "nodata" (nothing to
\* consolidate), "crashed" (KeyError on 'ValorDespesas') or "saved"
Consolidated(frames) ==
    IF frames = <<>> THEN [status |-> "nodata", full |-> NoFrame, csv |-> NoCsv]
    ELSE LET cat == Concat(frames)
             unique == DropDuplicates(cat.rows)
         IN  IF "ValorDespesas" \notin cat.cols
             THEN [status |-> "crashed", full |-> NoFrame, csv |-> NoCsv]
             ELSE LET kept == SelectSeq(unique, NonZeroAmount)
                      cols == cat.cols \cup {"CNPJ", "RazaoSocial"}
                      keep == SelectSeq(final_columns, LAMBDA c : c \in cols)
                  IN  [status |-> "saved",
                       full |-> [cols |-> cat.cols, rows |-> kept],
                       csv |-> [cols |-> keep,
                                rows |-> [k \in 1..Len(kept) |-> FinalRow(kept[k], keep)]]]

(* The files of the data directory *)

FileSlots == {1, 2}

FileNames ==
    { <<"1", "T", "2", "0", "2", "5", ".", "c", "s", "v">>,
      <<"4", "T", "2", "0", "2", "4", ".", "c", "s", "v">>,
      <<"d", "a", "d", "o", "s", ".", "c", "s", "v">>,
      <<"b", "a", "s", "e", ".", "c", "s", "v">> }

\* a source column: its name in the file and the field of the ledger line
\* it carries
Src(raw, of) == [raw |-> raw, of |-> of]

SourceHeaders ==
    { <<Src(N_REG_ANS, "reg"), Src(N_CD_CONTA_CONTABIL, "conta"),
        Src(N_DESCRICAO, "desc"), Src(N_VL_SALDO_FINAL, "val")>>,
      <<Src(<<"c", "d", "_", "o", "p", "e", "r", "a", "d", "o", "r", "a", " ">>, "reg"), Src(N_VL_SALDO_FINAL, "val")>>,
      <<Src(<<" ", "d", "e", "s", "c", "r", "i", "c", "a", "o">>, "desc"), Src(<<"v", "l", "_", "s", "a", "l", "d", "o", "_", "f", "i", "n", "a", "l">>, "val")>>,
      <<Src(N_REG_ANS, "reg"), Src(N_DESCRICAO, "desc")>> }

D_EVENTOS == <<"E", "V", "E", "N", "T", "O", "S", " ", "X">>

D_sinistros == <<"s", "i", "n", "i", "s", "t", "r", "o", "s">>

D_OUTRO == <<"O", "U", "T", "R", "O", " ", "E", "V", "E", "N", "T", "O">>

Line(conta, desc, val) ==
    [reg |-> Some(1), conta |-> Some(conta), desc |-> desc, val |-> Some(val)]

BaseLine == Line(1, Some(D_EVENTOS), 5)

\* ledger lines: the base line and every line that differs from it in one field
LedgerLines ==
    { BaseLine,
      Line(2, Some(D_EVENTOS), 5),
      Line(1, Some(D_sinistros), 5),
      Line(1, Some(D_OUTRO), 5),
      Line(1, Missing, 5),
      Line(1, Some(D_EVENTOS), 0),
      Line(1, Some(D_EVENTOS), -5) }

Seq0(n, S) == UNION {[1..k -> S] : k \in 0..n}

Unreadable == [readable |-> FALSE, header |-> <<>>, rows |-> <<>>]

FileContents ==
    {[readable |-> TRUE,
      header |-> [i \in 1..Len(h) |-> h[i].raw],
      rows |-> [k \in 1..Len(ls) |-> [i \in 1..Len(h) |-> ls[k][h[i].of]]]] :
        h \in SourceHeaders, ls \in Seq0(MaxRows, LedgerLines)}
    \cup {Unreadable}

CsvFiles ==
    {[name |-> n, readable |-> c.readable, header |-> c.header, rows |-> c.rows] :
        n \in FileNames, c \in FileContents}

InitProcess ==
    /\ pc = "loop"
    /\ files \in {f \in [FileSlots -> CsvFiles] :
                    \A i, j \in FileSlots : i # j => f[i].name # f[j].name}
    /\ idx = 1
    /\ all_data = <<>>
    /\ full_df = NoFrame
    /\ out_csv = NoCsv
    /\ log = <<>>
    /\ KeyIdle
    /\ CnpjIdle
    /\ MapIdle
    /\ ExtIdle

Logged(kind) == Append(log, [file |-> idx, kind |-> kind])

\* one iteration of the loop over csv_files (lines 58-111)
ProcessFile ==
    /\ pc = "loop"
    /\ idx \in FileSlots
    /\ LET f == files[idx]
           df == StandardFrame(f)
           df_filtered == SelectSeq(df.rows, Mask)
       IN  IF ~f.readable
           THEN /\ log' = Logged("error")
                /\ UNCHANGED all_data
           ELSE IF "Descricao" \notin df.cols
           THEN /\ log' = Logged("warning")
                /\ UNCHANGED all_data
           ELSE IF StrAccessorRaises(df)
           THEN /\ log' = Logged("error")
                /\ UNCHANGED all_data
           ELSE IF df_filtered # <<>>
           THEN /\ all_data' = Append(all_data,
                                    [file |-> idx,
                                     cols |-> df.cols \cup {"Ano", "Trimestre"},
                                     rows |-> Tagged(df_filtered, f.name)])
                /\ UNCHANGED log
           ELSE UNCHANGED <<all_data, log>>
    /\ idx' = idx + 1
    /\ pc' = IF idx + 1 \in FileSlots THEN "loop" ELSE "consolidate"
    /\ UNCHANGED <<files, full_df, out_csv, keyVars, cnpjVars, mapVars, extVars>>

\* lines 113-157: concat, drop_duplicates, the zero filter, the placeholder
\* columns, the column selection and the save
Consolidate ==
    /\ pc = "consolidate"
    /\ LET res == Consolidated(all_data)
       IN  /\ pc' = res.status
           /\ full_df' = res.full
           /\ out_csv' = res.csv
    /\ UNCHANGED <<files, idx, all_data, log, keyVars, cnpjVars, mapVars, extVars>>

NextProcess == ProcessFile \/ Consolidate

SpecProcess == InitProcess /\ [][NextProcess]_vars

----------------------------------------------------------------------------
(* Claims about process_data, checked under SpecProcess *)

Range(s) == {s[i] : i \in 1..Len(s)}

Reverse(s) == [i \in 1..Len(s) |-> s[Len(s) + 1 - i]]

Count(rows, r) == Cardinality({k \in 1..Len(rows) : rows[k] = r})

Terminal == pc \in {"saved", "nodata", "crashed"}

\* the rows that reached all_data from the file in slot i
KeptFrom(i) ==
    IF \E k \in 1..Len(all_data) : all_data[k].file = i
    THEN all_data[CHOOSE k \in 1..Len(all_data) : all_data[k].file = i].rows
    ELSE <<>>

HasColumn(f, label) == f.readable /\ label \in Range(standardize_columns(f.header))

\* C6: a batch none of whose columns maps to the registry identifier is
\* rejected as a whole, with a diagnostic: none of its rows reaches the
\* output.  Stated for the expense files of process_data.
C6_BatchWithoutIdRejected ==
    pc = "saved" =>
        \A i \in FileSlots :
            (files[i].readable /\ ~HasColumn(files[i], "RegistroANS")) =>
                /\ KeptFrom(i) = <<>>
                /\ \E e \in Range(log) : e.file = i

\* the description names an expense keyword, in any letter case
NamesExpense(text) ==
    \/ Contains(Lower(KW_EVENTOS), Lower(text))
    \/ Contains(Lower(KW_SINISTRO), Lower(text))

Untagged(rows) ==
    [k \in 1..Len(rows) |-> [rows[k] EXCEPT !.Ano = Missing, !.Trimestre = Missing]]

\* C7: of a file that process_data has gone through, exactly the rows whose
\* description contains EVENTOS or SINISTRO in any letter case are kept (a
\* row without description is not); a file without description column
\* contributes nothing, is reported, and the loop goes on to the next file.
C7_KeptIffKeyword ==
    \A i \in FileSlots :
        i < idx =>
            LET f == files[i]
                rows == StandardFrame(f).rows
                wanted ==
                    {k \in 1..Len(rows) :
                        /\ rows[k].Descricao # Missing
                        /\ NamesExpense(rows[k].Descricao[1])}
            IN  IF HasColumn(f, "Descricao")
                THEN /\ Range(Untagged(KeptFrom(i))) = {rows[k] : k \in wanted}
                     /\ Len(KeptFrom(i)) = Cardinality(wanted)
                ELSE /\ KeptFrom(i) = <<>>
                     /\ \E e \in Range(log) : e.file = i
                     /\ pc # "loop" \/ idx \in FileSlots

\* the first file has no description column and the second file's rows were kept
C7_Witness ==
    /\ idx = 3
    /\ files[1].readable /\ ~HasColumn(files[1], "Descricao")
    /\ KeptFrom(2) # <<>>
    /\ Len(KeptFrom(2)) = Len(files[2].rows)
    /\ \E k \in 1..Len(KeptFrom(2)) : KeptFrom(2)[k].Descricao = Some(D_sinistros)

\* the file name holds a digit 1-4, the quarter marker and a 4-digit year
HasPeriodToken(name) ==
    \E i \in 1..(Len(name) - 5) :
        /\ name[i] \in {"1", "2", "3", "4"}
        /\ name[i + 1] = "T"
        /\ \A j \in (i + 2)..(i + 5) : IsDigit(name[j])

\* C8: the period is never guessed: a record of a file whose name holds no
\* quarter+year token (the files carry no date column) has both its year and
\* its quarter tagged unknown, and is retained.
C8_NoGuessedPeriod ==
    \A k \in 1..Len(all_data) :
        ~HasPeriodToken(files[all_data[k].file].name) =>
            \A r \in Range(all_data[k].rows) :
                /\ r.Ano = Missing
                /\ r.Trimestre = Some("UNK")

\* the rows that two batches of all_data have in common
SharedRows ==
    {r \in UNION {Range(all_data[k].rows) : k \in 1..Len(all_data)} :
        \E i, j \in 1..Len(all_data) :
            i # j /\ r \in Range(all_data[i].rows) /\ r \in Range(all_data[j].rows)}

OrderIndependent ==
    LET other == Consolidated(Reverse(all_data))
    IN  /\ other.status = pc
        /\ Range(other.full.rows) = Range(full_df.rows)
        /\ Range(other.csv.rows) = Range(out_csv.rows)

Written(r, w) ==
    \A c \in DOMAIN w : c \in RowFields => w[c] = r[c]

\* C10: every row of the consolidated output has an amount other than zero:
\* of the rows kept by the filter exactly those with amount zero are
\* dropped, those with a negative amount stay.
C10_NonZeroAmounts ==
    pc = "saved" =>
        /\ \A w \in Range(out_csv.rows) : w.ValorDespesas # Some(0)
        /\ \A r \in Range(full_df.rows) : r.ValorDespesas # Some(0)
        /\ \A k \in 1..Len(all_data) :
              \A r \in Range(all_data[k].rows) :
                  r.ValorDespesas # Some(0) =>
                      /\ r \in Range(full_df.rows)
                      /\ \E w \in Range(out_csv.rows) : Written(r, w)

\* a zero amount was dropped and a negative amount was written
C10_Witness ==
    /\ pc = "saved"
    /\ \E k \in 1..Len(all_data) :
          \E r \in Range(all_data[k].rows) : r.ValorDespesas = Some(0)
    /\ \E w \in Range(out_csv.rows) : w.ValorDespesas = Some(-5)

----------------------------------------------------------------------------
(* The join stages: run_enrichment_pipeline (enrichment.py 122-157) and    *)
(* get_statistics (backend/main.py 189-213), both reading the consolidated *)
(* expense file and the registry file.  The registry file has a tax-id, a  *)
(* legal-name and a region column; names and regions are optional values.  *)

JoinIdCells == {StrCell(<<"1">>), StrCell(<<"2">>), StrCell(<<"x">>)}

Amounts == {100, 200, 300, -50}

ExpenseRows == [id : JoinIdCells, val : Amounts]

Exp(id, val) == [id |-> id, val |-> val]

\* the aggregator examples of the specification in one file (a group of
\* three records, a group of one and a reversal), and a file with a row
\* that has no identifier
ExampleFiles ==
    { <<Exp(StrCell(<<"1">>), 100), Exp(StrCell(<<"1">>), 200), Exp(StrCell(<<"1">>), 300),
        Exp(StrCell(<<"2">>), 100), Exp(StrCell(<<"1">>), -50)>>,
      <<Exp(NaN, 100), Exp(StrCell(<<"1">>), 100)>> }

ExpenseFiles == Seq0(MaxExp, ExpenseRows) \cup ExampleFiles

Reg(id, name, uf) ==
    [id |-> id, cnpj |-> StrCell(ExampleCnpj), name |-> Some(name), uf |-> Some(uf)]

R1 == Reg(StrCell(<<"1">>), "Acme", "SP")

\* a second registry row with the identifier of R1
R1b == Reg(StrCell(<<"1">>), "Beta", "RJ")

R2 == Reg(StrCell(<<"2">>), "Beta", "RJ")

\* a registry row whose identifier cell is empty
Rn == Reg(NaN, "Beta", "RJ")

RegistryFiles == { <<R1>>, <<R1, R2>>, <<R2, R1>>, <<R1, R1b>>, <<R1, Rn>> }

SentinelName == "Desconhecido"

SentinelCnpj == StrCell([i \in 1..CnpjLen |-> "0"])

RECURSIVE Sum(_)
Sum(xs) == IF xs = <<>> THEN 0 ELSE Head(xs) + Sum(Tail(xs))

\* pd.merge keeps every matching row of the right frame
AllMatches(hits) == hits

\* pd.merge(df_fin, df_cad[cols_to_use], on='RegistroANS', how='left') after
\* both key columns went through pd.to_numeric; src is the position of the
\* expense row in df_fin
MergeLeft(fin, cad) ==
    LET RowsOf(i) ==
            LET e == fin[i]
                hits == AllMatches(SelectSeq(cad, LAMBDA r : ToNumeric(r.id) = ToNumeric(e.id)))
                Joined(r) ==
                    [src |-> i, RegistroANS |-> ToNumeric(e.id), ValorDespesas |-> e.val,
                     CNPJ_Cad |-> r.cnpj, RazaoSocial_Cad |-> r.name, UF |-> r.uf]
            IN  IF hits = <<>>
                THEN << [src |-> i, RegistroANS |-> ToNumeric(e.id), ValorDespesas |-> e.val,
                         CNPJ_Cad |-> NaN, RazaoSocial_Cad |-> Missing, UF |-> Missing] >>
                ELSE [k \in 1..Len(hits) |-> Joined(hits[k])]
        F[i \in 0..Len(fin)] == IF i = 0 THEN <<>> ELSE F[i - 1] \o RowsOf(i)
    IN  F[Len(fin)]

\* lines 137-142: the sentinels and the tax-id check
Validated(rows) ==
    [k \in 1..Len(rows) |->
        LET r == rows[k]
            name == IF r.RazaoSocial_Cad = Missing THEN Some(SentinelName) ELSE r.RazaoSocial_Cad
            tax == IF r.CNPJ_Cad = NaN THEN SentinelCnpj ELSE r.CNPJ_Cad
        IN  [src |-> r.src, RegistroANS |-> r.RegistroANS, ValorDespesas |-> r.ValorDespesas,
             RazaoSocial |-> name, CNPJ |-> tax, UF |-> r.UF,
             CNPJ_Valido |-> validate_cnpj(tax)]]

\* line 145
PositiveExpense(r) == r.ValorDespesas > 0

\* a slip that leaves the NaN of a single record as it is (no fillna)
StdNoFillna(xs) ==
    LET n == Len(xs)
        sq == [i \in 1..n |-> xs[i] * xs[i]]
    IN  IF n = 1 THEN [num |-> 0, den |-> 0]
        ELSE [num |-> n * Sum(sq) - Sum(xs) * Sum(xs), den |-> n * (n - 1)]

\* the 'std' of agg followed by fillna(0): the sample variance (divisor
\* n - 1) as the fraction num/den whose square root is the value; a single
\* record gives NaN, which fillna turns into 0
StdFillna(xs) ==
    LET n == Len(xs)
        sq == [i \in 1..n |-> xs[i] * xs[i]]
    IN  IF n = 1 THEN [num |-> 0, den |-> 1]
        ELSE [num |-> n * Sum(sq) - Sum(xs) * Sum(xs), den |-> n * (n - 1)]

\* groupby(['RazaoSocial', 'UF']).agg(sum, mean, std, count): one row per
\* key; a row whose key has a missing part belongs to no group
GroupRows(clean) ==
    LET keys == {<<clean[k].RazaoSocial, clean[k].UF>> : k \in {j \in 1..Len(clean) : clean[j].UF # Missing}}
        Vals(key) ==
            LET members == SelectSeq(clean, LAMBDA r : <<r.RazaoSocial, r.UF>> = key)
            IN  [k \in 1..Len(members) |-> members[k].ValorDespesas]
    IN  {[RazaoSocial |-> key[1], UF |-> key[2],
          Despesa_Total |-> Sum(Vals(key)),
          Despesa_Media_Trimestral |-> [num |-> Sum(Vals(key)), den |-> Len(Vals(key))],
          Despesa_Desvio_Padrao |-> StdFillna(Vals(key)),
          Qtd_Registros |-> Len(Vals(key))] : key \in keys}

Perms(n) == {p \in [1..n -> 1..n] : \A i, j \in 1..n : i # j => p[i] # p[j]}

\* sort_values(by, ascending=False) with the default kind
\* 'quicksort', which is not stable: every arrangement of the rows with
\* non-increasing totals is a possible result
SortValuesDesc(rows, by) ==
    {[i \in 1..Len(rows) |-> rows[p[i]]] : p \in
        {q \in Perms(Len(rows)) :
            \A i \in 1..(Len(rows) - 1) : rows[q[i]][by] >= rows[q[i + 1]][by]}}

\* some enumeration of a finite set
RECURSIVE SeqOf(_)
SeqOf(S) == IF S = {} THEN <<>> ELSE LET x == CHOOSE y \in S : TRUE IN <<x>> \o SeqOf(S \ {x})

InitJoin ==
    /\ pc = "join"
    /\ df_fin \in ExpenseFiles
    /\ df_cad \in RegistryFiles
    /\ df_merged = <<>>
    /\ df_grouped = <<>>
    /\ stats = NoStats
    /\ KeyIdle
    /\ CnpjIdle
    /\ MapIdle
    /\ ProcIdle
    /\ ApiIdle
    /\ RerunIdle

\* run_enrichment_pipeline, lines 122-157
RunEnrichment ==
    /\ pc = "join"
    /\ LET merged == Validated(MergeLeft(df_fin, df_cad))
           df_clean == SelectSeq(merged, PositiveExpense)
       IN  /\ df_merged' = merged
           /\ df_grouped' \in SortValuesDesc(SeqOf(GroupRows(df_clean)), "Despesa_Total")
    /\ pc' = "enriched"
    /\ UNCHANGED <<df_fin, df_cad, stats, keyVars, cnpjVars, mapVars, procVars, apiVars, rerunVars>>

TopN == 5

\* DataFrame.head(n)
HeadN(rows, n) == SubSeq(rows, 1, IF Len(rows) < n THEN Len(rows) ELSE n)

\* fillna("") on one optional text
FillNaEmpty(v) == IF v = Missing THEN Some("") ELSE v

\* the cleaned keys of the model's identifier cells in ascending text order,
\* the order in which groupby lists its groups
ApiKeyOrder == << <<"1">>, <<"2">>, <<"n", "a", "n">>, <<"x">> >>

\* the region codes in ascending text order
UfOrder == <<Some("RJ"), Some("SP")>>

\* a CSV file of the data directory: present with its rows, or absent
File(rows) == [exists |-> TRUE, rows |-> rows]

MissingFile == [exists |-> FALSE, rows |-> <<>>]

\* pd.DataFrame(): no columns, no rows
EmptyFrame == [cols |-> {}, rows |-> <<>>]

OperatorColumns == {"RegistroANS", "CNPJ", "RazaoSocial", "UF"}

ExpenseColumns == {"RegistroANS", "ValorDespesas", "Ano", "Trimestre"}

\* load_data, lines 44-71 and 89-90: the registry frame under the renamed
\* columns with its keys cleaned; the empty frame when reading fails.
\* CNPJ_Clean is the cell of the column that the detail routes add.
LoadOperators(file) ==
    IF ~file.exists THEN EmptyFrame
    ELSE [cols |-> OperatorColumns,
          rows |-> [k \in 1..Len(file.rows) |->
                      [RegistroANS |-> NormalizeApi(file.rows[k].id),
                       CNPJ |-> file.rows[k].cnpj,
                       RazaoSocial |-> file.rows[k].name,
                       UF |-> file.rows[k].uf,
                       CNPJ_Clean |-> <<>>]]]

\* load_data, lines 73-85 and 92-93; the consolidated file of the model
\* holds the rows of one period
LoadExpenses(file) ==
    IF ~file.exists THEN EmptyFrame
    ELSE [cols |-> ExpenseColumns,
          rows |-> [k \in 1..Len(file.rows) |->
                      [RegistroANS |-> NormalizeApi(file.rows[k].id),
                       ValorDespesas |-> file.rows[k].val,
                       Ano |-> 2025,
                       Trimestre |-> "1T"]]]

\* df_expenses.groupby('RegistroANS')['ValorDespesas'].sum().reset_index()
\* on the keys load_data cleaned (a missing identifier is the text 'nan')
ExpenseTotals(exp) ==
    LET present == SelectSeq(ApiKeyOrder, LAMBDA k : \E i \in 1..Len(exp) : exp[i].RegistroANS = k)
        Vals(k) ==
            LET members == SelectSeq(exp, LAMBDA e : e.RegistroANS = k)
            IN  [i \in 1..Len(members) |-> members[i].ValorDespesas]
    IN  [i \in 1..Len(present) |-> [RegistroANS |-> present[i], ValorDespesas |-> Sum(Vals(present[i]))]]

\* pd.merge(agg, df_operators[['RegistroANS', 'RazaoSocial', 'UF']],
\*          on='RegistroANS', how='inner')
MergeInner(agg, ops) ==
    LET RowsOf(i) ==
            LET hits == SelectSeq(ops, LAMBDA r : r.RegistroANS = agg[i].RegistroANS)
            IN  [k \in 1..Len(hits) |->
                    [RegistroANS |-> agg[i].RegistroANS, ValorDespesas |-> agg[i].ValorDespesas,
                     RazaoSocial |-> hits[k].RazaoSocial, UF |-> hits[k].UF]]
        F[i \in 0..Len(agg)] == IF i = 0 THEN <<>> ELSE F[i - 1] \o RowsOf(i)
    IN  F[Len(agg)]

\* merged.groupby('UF')['ValorDespesas'].sum().reset_index()
TotalsByUf(merged) ==
    LET present == SelectSeq(UfOrder, LAMBDA u : \E i \in 1..Len(merged) : merged[i].UF = u)
        Vals(u) ==
            LET members == SelectSeq(merged, LAMBDA r : r.UF = u)
            IN  [i \in 1..Len(members) |-> members[i].ValorDespesas]
    IN  [i \in 1..Len(present) |-> [UF |-> present[i], ValorDespesas |-> Sum(Vals(present[i]))]]

\* get_statistics, lines 194-210
GetStatistics ==
    /\ pc = "join"
    /\ LET merged == MergeInner(ExpenseTotals(LoadExpenses(File(df_fin)).rows),
                                LoadOperators(File(df_cad)).rows)
       IN  \E top \in SortValuesDesc(merged, "ValorDespesas"),
              by_uf \in SortValuesDesc(TotalsByUf(merged), "ValorDespesas") :
                stats' = [status |-> "ok",
                          top_5_operadoras |->
                              [i \in 1..Len(HeadN(top, TopN)) |->
                                  [top[i] EXCEPT !.RazaoSocial = FillNaEmpty(@), !.UF = FillNaEmpty(@)]],
                          despesas_por_uf |-> HeadN(by_uf, TopN)]
    /\ pc' = "stats"
    /\ UNCHANGED <<df_fin, df_cad, df_merged, df_grouped, keyVars, cnpjVars, mapVars, procVars, apiVars, rerunVars>>

NextJoin == RunEnrichment \/ GetStatistics

SpecJoin == InitJoin /\ [][NextJoin]_vars

----------------------------------------------------------------------------
(* Claims about the join stages, checked under SpecJoin *)

\* the expense row carries an identifier that no registry row carries
InNoRegistryRow(e) ==
    /\ e.id # NaN
    /\ \A k \in 1..Len(df_cad) : df_cad[k].id # e.id

\* C11: an expense whose registry identifier is in no registry row is kept
\* by the left join of the enrichment with the sentinel legal name and the
\* sentinel tax id, and no row of the statistics' inner join carries its key.
C11_UnmatchedKeptWithSentinel ==
    /\ pc = "enriched" =>
          \A i \in 1..Len(df_fin) :
              InNoRegistryRow(df_fin[i]) =>
                  /\ \E k \in 1..Len(df_merged) : df_merged[k].src = i
                  /\ \A k \in 1..Len(df_merged) :
                        df_merged[k].src = i =>
                            /\ df_merged[k].RazaoSocial = Some(SentinelName)
                            /\ df_merged[k].CNPJ = SentinelCnpj
    /\ pc = "stats" =>
          \A i \in 1..Len(df_fin) :
              InNoRegistryRow(df_fin[i]) =>
                  \A k \in 1..Len(stats.top_5_operadoras) :
                      stats.top_5_operadoras[k].RegistroANS # NormalizeApi(df_fin[i].id)

\* the first registry row whose identifier is that of expense row e
FirstOccurrence(e) ==
    df_cad[CHOOSE k \in 1..Len(df_cad) :
              /\ df_cad[k].id = e.id
              /\ \A j \in 1..(k - 1) : df_cad[j].id # e.id]

\* C12: the join never fans out: with several registry rows of the same
\* identifier every expense row appears exactly once in the enrichment's
\* join, matched to the first registry occurrence, so that the join has as
\* many rows as there are expense rows; and every per-operator total appears
\* once in the statistics' join, so that no amount is counted twice.
C12_JoinNeverFansOut ==
    /\ pc = "enriched" =>
          /\ Len(df_merged) = Len(df_fin)
          /\ \A i \in 1..Len(df_fin) :
                /\ Cardinality({k \in 1..Len(df_merged) : df_merged[k].src = i}) = 1
                /\ (df_fin[i].id # NaN /\ \E k \in 1..Len(df_cad) : df_cad[k].id = df_fin[i].id) =>
                      \A k \in 1..Len(df_merged) :
                          df_merged[k].src = i =>
                              df_merged[k].RazaoSocial = FirstOccurrence(df_fin[i]).name
    /\ pc = "stats" =>
          /\ \A j, k \in 1..Len(stats.top_5_operadoras) :
                j # k => stats.top_5_operadoras[j].RegistroANS # stats.top_5_operadoras[k].RegistroANS
          /\ Sum([k \in 1..Len(stats.despesas_por_uf) |-> stats.despesas_por_uf[k].ValorDespesas])
                = Sum([k \in 1..Len(stats.top_5_operadoras) |->
                          IF \E j \in 1..(k - 1) :
                                stats.top_5_operadoras[j].RegistroANS = stats.top_5_operadoras[k].RegistroANS
                          THEN 0 ELSE stats.top_5_operadoras[k].ValorDespesas])

\* the aggregated frame holds, for every (legal name, region) group of the
\* given records, one row with the group's count, sum, mean and sample
\* standard deviation (0 for a single record), and no other row
AggregatesMatch(records) ==
    LET grouped == SelectSeq(records, LAMBDA r : r.UF # Missing)
        keys == {<<grouped[k].RazaoSocial, grouped[k].UF>> : k \in 1..Len(grouped)}
        Members(key) == SelectSeq(grouped, LAMBDA r : <<r.RazaoSocial, r.UF>> = key)
        Amount(key) == [k \in 1..Len(Members(key)) |-> Members(key)[k].ValorDespesas]
    IN  /\ Len(df_grouped) = Cardinality(keys)
        /\ \A key \in keys :
              \E k \in 1..Len(df_grouped) :
                  LET g == df_grouped[k]
                      n == Len(Amount(key))
                      total == Sum(Amount(key))
                      dev2 == Sum([i \in 1..n |-> (n * Amount(key)[i] - total) * (n * Amount(key)[i] - total)])
                  IN  /\ <<g.RazaoSocial, g.UF>> = key
                      /\ g.Qtd_Registros = n
                      /\ g.Despesa_Total = total
                      /\ g.Despesa_Media_Trimestral.den # 0
                      /\ g.Despesa_Media_Trimestral.num * n = total * g.Despesa_Media_Trimestral.den
                      /\ g.Despesa_Desvio_Padrao.den # 0
                      /\ IF n = 1 THEN g.Despesa_Desvio_Padrao.num = 0
                         ELSE g.Despesa_Desvio_Padrao.num * (n - 1) * n * n
                                  = dev2 * g.Despesa_Desvio_Padrao.den

\* C13 as stated: every group of enriched records has an aggregate row with
\* count = number of records, total = sum of the signed amounts of all of
\* them, mean = total / count and the sample standard deviation (divisor
\* n - 1), which is 0 for a single record.
C13_AggregateOfAllRecords ==
    pc = "enriched" => AggregatesMatch(df_merged)

\* C13 as amended: the same for every group of the enriched records whose
\* amount is greater than zero, the records that the pipeline aggregates.
C13_AggregateOfPositiveRecords ==
    pc = "enriched" => AggregatesMatch(SelectSeq(df_merged, LAMBDA r : r.ValorDespesas > 0))

\* the spec's examples: the group [100, 200, 300] has total 600, mean 200 and
\* standard deviation 100, a single record of 100 has total 100, mean 100
\* and standard deviation 0, and a record with a negative amount was joined
C13_Witness ==
    /\ pc = "enriched"
    /\ \E k \in 1..Len(df_merged) : df_merged[k].ValorDespesas < 0
    /\ \E k \in 1..Len(df_grouped) :
          /\ df_grouped[k].Qtd_Registros = 3
          /\ df_grouped[k].Despesa_Total = 600
          /\ df_grouped[k].Despesa_Media_Trimestral.num = 200 * df_grouped[k].Despesa_Media_Trimestral.den
          /\ df_grouped[k].Despesa_Desvio_Padrao.num
                = 100 * 100 * df_grouped[k].Despesa_Desvio_Padrao.den
    /\ \E k \in 1..Len(df_grouped) :
          /\ df_grouped[k].Qtd_Registros = 1
          /\ df_grouped[k].Despesa_Total = 100
          /\ df_grouped[k].Despesa_Media_Trimestral.num = 100 * df_grouped[k].Despesa_Media_Trimestral.den
          /\ df_grouped[k].Despesa_Desvio_Padrao.num = 0

\* the legal names of the model in ascending text order
NameOrder == <<Some("Acme"), Some("Beta"), Some(SentinelName)>>

Rank(x, order) == CHOOSE i \in 1..Len(order) : order[i] = x

\* rows is ordered by total descending, rows of equal total by key ascending
RankedBy(rows, Total(_), KeyLeq(_, _)) ==
    \A i, j \in 1..Len(rows) :
        i < j =>
            \/ Total(rows[i]) > Total(rows[j])
            \/ Total(rows[i]) = Total(rows[j]) /\ KeyLeq(rows[i], rows[j])

\* C14: the ranked summaries (the aggregated summary file, the top-5
\* operators, the per-region totals) are ordered by total descending, and
\* groups of equal total by group key ascending.
C14_TiesByGroupKey ==
    /\ pc = "enriched" =>
          RankedBy(df_grouped, LAMBDA g : g.Despesa_Total,
                   LAMBDA a, b :
                       \/ Rank(a.RazaoSocial, NameOrder) < Rank(b.RazaoSocial, NameOrder)
                       \/ /\ a.RazaoSocial = b.RazaoSocial
                          /\ Rank(a.UF, UfOrder) <= Rank(b.UF, UfOrder))
    /\ pc = "stats" =>
          /\ RankedBy(stats.top_5_operadoras, LAMBDA r : r.ValorDespesas,
                      LAMBDA a, b : Rank(a.RegistroANS, ApiKeyOrder) <= Rank(b.RegistroANS, ApiKeyOrder))
          /\ RankedBy(stats.despesas_por_uf, LAMBDA r : r.ValorDespesas,
                      LAMBDA a, b : Rank(a.UF, UfOrder) <= Rank(b.UF, UfOrder))

----------------------------------------------------------------------------
(* Error handling of process_data, checked under SpecProcess *)

\* the file can be read and has the description and the amount column
Usable(f) == HasColumn(f, "Descricao") /\ HasColumn(f, "ValorDespesas")

\* C15: a per-file error never aborts the run: a file that cannot be read or
\* lacks the description or the amount column is skipped, the run completes,
\* and when a usable file yields a surviving row the consolidated rows of
\* the usable files are written.
C15_FileErrorsNeverAbort ==
    Terminal =>
        /\ pc # "crashed"
        /\ \A i \in FileSlots : ~Usable(files[i]) => KeptFrom(i) = <<>>
        /\ \A i \in FileSlots :
              Usable(files[i]) =>
                  \A r \in Range(KeptFrom(i)) :
                      NonZeroAmount(r) => pc = "saved" /\ r \in Range(full_df.rows)

----------------------------------------------------------------------------
(* The serving layer (backend/main.py): the two global frames that         *)
(* load_data builds when the module is imported, and the routes.           *)

\* the characters of the legal names of the model
NameChars(name) ==
    IF name = Some("Acme") THEN <<"A", "c", "m", "e">>
    ELSE IF name = Some("Beta") THEN <<"B", "e", "t", "a">>
    ELSE <<>>

SearchTerms == { <<"a", "c">>, <<"z">> }

\* the {cnpj} path parameter: the tax id of the registry rows as written,
\* its digits, and a tax id no registry row has
CnpjParams ==
    { ExampleCnpj, ReSubNonDigits(ExampleCnpj), <<"9", "9">> }

Requests ==
    {[route |-> r] : r \in {"/", "/x", "/api/estatisticas"}}
        \cup {[route |-> "/api/operadoras", page |-> p, limit |-> l, search |-> q] :
                 p \in {1, 2}, l \in {1, 10}, q \in {Missing} \cup {Some(t) : t \in SearchTerms}}
        \cup {[route |-> r, cnpj |-> c] :
                 r \in {"/api/operadoras/{cnpj}", "/api/operadoras/{cnpj}/despesas"},
                 c \in CnpjParams}

RegistrySources == {MissingFile} \cup {File(rows) : rows \in RegistryFiles \cup {<<>>}}

ExpenseSources == {MissingFile} \cup {File(rows) : rows \in Seq0(MaxRows, ExpenseRows)}

\* an exception that no handler catches
InternalServerError == [status |-> 500, body |-> [detail |-> "Internal Server Error"]]

HTTPException(status, detail) == [status |-> status, body |-> [detail |-> detail]]

\* fillna("") on one cell of the named column
FillNa(col, v) ==
    IF col \in {"RazaoSocial", "UF"} THEN FillNaEmpty(v)
    ELSE IF col = "CNPJ" THEN (IF v = NaN THEN StrCell(<<>>) ELSE v)
    ELSE v

\* row.fillna("").to_dict() under the frame's columns
ToDict(row, cols) == [c \in cols |-> FillNa(c, row[c])]

ToRecords(rows, cols) == [k \in 1..Len(rows) |-> ToDict(rows[k], cols)]

InitApi ==
    /\ pc = "serving"
    /\ \E cad \in RegistrySources, fin \in ExpenseSources :
          /\ df_operators = LoadOperators(cad)
          /\ df_expenses = LoadExpenses(fin)
    /\ req = NoRequest
    /\ resp = NoResponse
    /\ KeyIdle
    /\ CnpjIdle
    /\ MapIdle
    /\ ProcIdle
    /\ JoinIdle
    /\ RerunIdle

\* GET /
health_check ==
    /\ pc = "serving"
    /\ req' = [route |-> "/"]
    /\ resp' = [status |-> 200,
                body |-> [status |-> "online",
                          operators_loaded |-> Len(df_operators.rows),
                          expenses_loaded |-> Len(df_expenses.rows)]]
    /\ UNCHANGED <<pc, df_operators, df_expenses, keyVars, cnpjVars, mapVars, procVars, joinVars, rerunVars>>

\* a path that no route matches: the framework's 404
no_route ==
    /\ pc = "serving"
    /\ req' = [route |-> "/x"]
    /\ resp' = HTTPException(404, "Not Found")
    /\ UNCHANGED <<pc, df_operators, df_expenses, keyVars, cnpjVars, mapVars, procVars, joinVars, rerunVars>>

\* the response of list_operadoras on a registry frame
ListResponse(ops, r) ==
    IF r.search # Missing /\ "RazaoSocial" \notin ops.cols THEN InternalServerError
    ELSE LET filtered_df ==
                 IF r.search = Missing THEN ops.rows
                 ELSE SelectSeq(ops.rows,
                                LAMBDA o : Contains(Upper(r.search[1]), Upper(NameChars(o.RazaoSocial))))
             total == Len(filtered_df)
             start == (r.page - 1) * r.limit
             stop == IF start + r.limit < total THEN start + r.limit ELSE total
             subset == SubSeq(filtered_df, start + 1, stop)
         IN  [status |-> 200,
              body |-> [data |-> ToRecords(subset, ops.cols),
                        meta |-> [total |-> total, page |-> r.page, limit |-> r.limit,
                                  total_pages |-> (total + r.limit - 1) \div r.limit]]]

\* GET /api/operadoras
list_operadoras ==
    /\ pc = "serving"
    /\ \E r \in Requests :
          /\ r.route = "/api/operadoras"
          /\ req' = r
          /\ resp' = ListResponse(df_operators, r)
    /\ UNCHANGED <<pc, df_operators, df_expenses, keyVars, cnpjVars, mapVars, procVars, joinVars, rerunVars>>

\* str(cnpj).replace('.', '').replace('/', '').replace('-', '').strip()
CleanParam(param) == Strip(RemoveChar(RemoveChar(RemoveChar(param, "."), "/"), "-"))

\* df_operators['CNPJ_Clean'] = df_operators['CNPJ'].astype(str)
\*     .str.replace(r'\D', '', regex=True): the global frame gets the column
WithCnpjClean(ops) ==
    [cols |-> ops.cols \cup {"CNPJ_Clean"},
     rows |-> [k \in 1..Len(ops.rows) |->
                 [ops.rows[k] EXCEPT !.CNPJ_Clean = ReSubNonDigits(AsTypeStr(ops.rows[k].CNPJ))]]]

\* the rows of the frame whose CNPJ_Clean equals the cleaned parameter
CnpjMatch(ops, param) ==
    SelectSeq(WithCnpjClean(ops).rows, LAMBDA o : o.CNPJ_Clean = CleanParam(param))

\* the response of get_operadora_details on a registry frame
DetailsResponse(ops, r) ==
    IF "CNPJ" \notin ops.cols THEN InternalServerError
    ELSE IF CnpjMatch(ops, r.cnpj) = <<>> THEN HTTPException(404, "Operadora not found")
    ELSE [status |-> 200, body |-> ToDict(CnpjMatch(ops, r.cnpj)[1], WithCnpjClean(ops).cols)]

\* GET /api/operadoras/{cnpj}
get_operadora_details ==
    /\ pc = "serving"
    /\ \E r \in Requests :
          /\ r.route = "/api/operadoras/{cnpj}"
          /\ req' = r
          /\ resp' = DetailsResponse(df_operators, r)
    /\ df_operators' = IF "CNPJ" \in df_operators.cols THEN WithCnpjClean(df_operators)
                       ELSE df_operators
    /\ UNCHANGED <<pc, df_expenses, keyVars, cnpjVars, mapVars, procVars, joinVars, rerunVars>>

\* the response of get_operadora_expenses on the two frames
ExpensesResponse(ops, exp, r) ==
    IF "CNPJ" \notin ops.cols THEN InternalServerError
    ELSE IF CnpjMatch(ops, r.cnpj) = <<>> THEN HTTPException(404, "Operadora not found")
    ELSE IF "RegistroANS" \notin exp.cols THEN InternalServerError
    ELSE LET registro_ans == CnpjMatch(ops, r.cnpj)[1].RegistroANS
             expenses_match == SelectSeq(exp.rows, LAMBDA e : e.RegistroANS = registro_ans)
         IN  [status |-> 200, body |-> ToRecords(expenses_match, exp.cols)]

\* GET /api/operadoras/{cnpj}/despesas; the rows of the model are of one
\* period, so the sort by ['Ano', 'Trimestre'] leaves their order
get_operadora_expenses ==
    /\ pc = "serving"
    /\ \E r \in Requests :
          /\ r.route = "/api/operadoras/{cnpj}/despesas"
          /\ req' = r
          /\ resp' = ExpensesResponse(df_operators, df_expenses, r)
    /\ df_operators' = IF "CNPJ" \in df_operators.cols THEN WithCnpjClean(df_operators)
                       ELSE df_operators
    /\ UNCHANGED <<pc, df_expenses, keyVars, cnpjVars, mapVars, procVars, joinVars, rerunVars>>

\* the responses get_statistics can give on the two frames; a KeyError on a
\* frame without the columns is caught and answered with two empty lists
StatisticsResponses(ops, exp) ==
    IF ~({"RegistroANS", "ValorDespesas"} \subseteq exp.cols)
          \/ ~({"RegistroANS", "RazaoSocial", "UF"} \subseteq ops.cols)
    THEN {[status |-> 200, body |-> [top_5_operadoras |-> <<>>, despesas_por_uf |-> <<>>]]}
    ELSE LET merged == MergeInner(ExpenseTotals(exp.rows), ops.rows)
         IN  {[status |-> 200,
               body |-> [top_5_operadoras |->
                             [i \in 1..Len(HeadN(top, TopN)) |->
                                 [top[i] EXCEPT !.RazaoSocial = FillNaEmpty(@), !.UF = FillNaEmpty(@)]],
                         despesas_por_uf |-> HeadN(by_uf, TopN)]] :
                 top \in SortValuesDesc(merged, "ValorDespesas"),
                 by_uf \in SortValuesDesc(TotalsByUf(merged), "ValorDespesas")}

\* GET /api/estatisticas
get_statistics ==
    /\ pc = "serving"
    /\ req' = [route |-> "/api/estatisticas"]
    /\ resp' \in StatisticsResponses(df_operators, df_expenses)
    /\ UNCHANGED <<pc, df_operators, df_expenses, keyVars, cnpjVars, mapVars, procVars, joinVars, rerunVars>>

NextApi ==
    \/ health_check
    \/ no_route
    \/ list_operadoras
    \/ get_operadora_details
    \/ get_operadora_expenses
    \/ get_statistics

SpecApi == InitApi /\ [][NextApi]_vars

----------------------------------------------------------------------------
(* Claims about the serving layer, checked under SpecApi *)

DataRoutes ==
    {"/api/operadoras", "/api/operadoras/{cnpj}", "/api/operadoras/{cnpj}/despesas",
     "/api/estatisticas"}

\* the responses the route of request r gives on the frames ops and exp
Responses(ops, exp, r) ==
    IF r.route = "/api/operadoras" THEN {ListResponse(ops, r)}
    ELSE IF r.route = "/api/operadoras/{cnpj}" THEN {DetailsResponse(ops, r)}
    ELSE IF r.route = "/api/operadoras/{cnpj}/despesas" THEN {ExpensesResponse(ops, exp, r)}
    ELSE StatisticsResponses(ops, exp)

\* the datasets the route reads failed to load or have no rows
Unavailable(ops, exp, route) ==
    \/ ops.rows = <<>>
    \/ route \in {"/api/operadoras/{cnpj}/despesas", "/api/estatisticas"} /\ exp.rows = <<>>

\* the answer of a lookup that matched nothing
IsMiss(r, answer) ==
    IF r.route = "/api/operadoras"
    THEN r.search # Missing /\ answer.status = 200 /\ answer.body.data = <<>>
    ELSE IF r.route = "/api/operadoras/{cnpj}" THEN answer.status = 404
    ELSE IF r.route = "/api/operadoras/{cnpj}/despesas"
    THEN answer.status = 404 \/ (answer.status = 200 /\ answer.body = <<>>)
    ELSE answer.body.top_5_operadoras = <<>> /\ answer.body.despesas_por_uf = <<>>

SameResponse(a, b) == a.status = b.status /\ a.body = b.body

\* the pairs of frames load_data builds from files that hold rows
LoadedFrames ==
    {<<LoadOperators(cad), LoadExpenses(fin)>> :
        cad \in {c \in RegistrySources : c.rows # <<>>},
        fin \in {f \in ExpenseSources : f.rows # <<>>}}

\* C16: on every data route the response given while the datasets failed to
\* load or are empty differs from every response the route gives, on loaded
\* data, to a query that matches nothing.
C16_MissNotConflated ==
    (req.route \in DataRoutes /\ Unavailable(df_operators, df_expenses, req.route)) =>
        \A L \in LoadedFrames :
            \A q \in {r \in Requests : r.route = req.route} :
                \A answer \in Responses(L[1], L[2], q) :
                    IsMiss(q, answer) => ~SameResponse(resp, answer)

\* C17: the application has no root route: GET / is answered with 404.
C17_RootNotFound ==
    req.route = "/" => resp.status = 404

\* C18: the routes only read: no request changes the registry frame or the
\* expense frame that load_data built.
C18_SnapshotUnchanged ==
    [][df_operators' = df_operators /\ df_expenses' = df_expenses]_vars

----------------------------------------------------------------------------
(* Successive runs of process_data on one data directory                   *)
(* (etl/processing.py).  The directory holds the raw expense files, the    *)
(* registry file and, once a run has saved it, consolidado_despesas.csv.   *)
(* A file is its header and its rows as text fields (an empty field is a   *)
(* missing value); a frame is [cols, rows] with the column labels as text  *)
(* and each row a function from the labels to cells [kind, s].             *)

MaxRuns == 3

OUTPUT_CSV == <<"c", "o", "n", "s", "o", "l", "i", "d", "a", "d", "o", "_", "d", "e", "s", "p", "e", "s", "a", "s", ".", "c", "s", "v">>

\* the text of the labels that process_data assigns
LabelText ==
    ("RegistroANS" :> <<"R", "e", "g", "i", "s", "t", "r", "o", "A", "N", "S">>) @@
    ("Data" :> <<"D", "a", "t", "a">>) @@
    ("CodigoConta" :> <<"C", "o", "d", "i", "g", "o", "C", "o", "n", "t", "a">>) @@
    ("Descricao" :> <<"D", "e", "s", "c", "r", "i", "c", "a", "o">>) @@
    ("ValorDespesas" :> <<"V", "a", "l", "o", "r", "D", "e", "s", "p", "e", "s", "a", "s">>) @@
    ("ValorInicial" :> <<"V", "a", "l", "o", "r", "I", "n", "i", "c", "i", "a", "l">>) @@
    ("CNPJ" :> <<"C", "N", "P", "J">>) @@
    ("RazaoSocial" :> <<"R", "a", "z", "a", "o", "S", "o", "c", "i", "a", "l">>) @@
    ("Trimestre" :> <<"T", "r", "i", "m", "e", "s", "t", "r", "e">>) @@
    ("Ano" :> <<"A", "n", "o">>)

TrimestreText ==
    ("1T" :> <<"1", "T">>) @@
    ("2T" :> <<"2", "T">>) @@
    ("3T" :> <<"3", "T">>) @@
    ("4T" :> <<"4", "T">>) @@
    ("UNK" :> <<"U", "N", "K">>)

PlaceholderText == <<"U", "n", "a", "v", "a", "i", "l", "a", "b", "l", "e", " ", "(", "S", "e", "e", " ", "S", "t", "e", "p", " ", "2", ".", "2", ")">>

\* standardize_columns on one column name, as text: upper-case, strip, then
\* the rename map; a name outside the map is kept
StandardLabel(name) ==
    LET c == Strip(Upper(name))
    IN  IF column_map(c) = "(unmapped)" THEN c ELSE LabelText[column_map(c)]

\* an integer literal as read_csv recognises it
IsIntText(t) ==
    \/ t # <<>> /\ AllDigits(t)
    \/ Len(t) > 1 /\ Head(t) = "-" /\ AllDigits(Tail(t))

\* the canonical digits of an integer literal
CanonicalInt(t) ==
    LET neg == Head(t) = "-"
        d == DropLeadingZeros(IF neg THEN Tail(t) ELSE t)
    IN  IF d = <<>> THEN <<"0">> ELSE IF neg THEN <<"-">> \o d ELSE d

\* the dtype read_csv(sep=';', decimal=',') infers for a column from its
\* fields: int64 when every field is an integer literal, float64 when the
\* others are empty, object otherwise (a field such as 5.0 is no number
\* when the decimal mark is the comma)
InferredKind(fields) ==
    IF \E t \in fields : t # <<>> /\ ~IsIntText(t) THEN "str"
    ELSE IF <<>> \in fields THEN "float"
    ELSE "int"

\* one field as a cell of a column of the given dtype
ReadCell(t, kind) ==
    IF t = <<>> THEN NaN
    ELSE IF kind = "str" THEN StrCell(t)
    ELSE [kind |-> kind, s |-> CanonicalInt(t)]

\* pd.read_csv followed by standardize_columns (lines 66-75)
ReadCsv(f) ==
    LET n == Len(f.header)
        kind == [i \in 1..n |-> InferredKind({f.rows[k][i] : k \in 1..Len(f.rows)})]
        cols == {StandardLabel(f.header[i]) : i \in 1..n}
        At(c) == CHOOSE i \in 1..n : StandardLabel(f.header[i]) = c
    IN  [cols |-> cols,
         rows |-> [k \in 1..Len(f.rows) |->
                     [c \in cols |-> ReadCell(f.rows[k][At(c)], kind[At(c)])]]]

L_Descricao == LabelText["Descricao"]

L_ValorDespesas == LabelText["ValorDespesas"]

L_Ano == LabelText["Ano"]

L_Trimestre == LabelText["Trimestre"]

\* .str on a column that is not of object dtype raises AttributeError
StrAccessorFails(df) ==
    /\ df.rows # <<>>
    /\ \A k \in 1..Len(df.rows) : df.rows[k][L_Descricao].kind # "str"

\* the mask of line 85 on one row of a frame with text labels
MaskCell(row) ==
    row[L_Descricao].kind = "str" /\ ContainsKeyword(row[L_Descricao].s)

DigitSeq == <<"0", "1", "2", "3", "4", "5", "6", "7", "8", "9">>

\* the decimal digits of a natural number
RECURSIVE NatText(_)
NatText(n) ==
    IF n < 10 THEN <<DigitSeq[n + 1]>>
    ELSE NatText(n \div 10) \o <<DigitSeq[(n % 10) + 1]>>

IntText(n) == IF n < 0 THEN <<"-">> \o NatText(-n) ELSE NatText(n)

\* lines 88-104: the Ano and Trimestre columns derived from the file name
TaggedCells(rows, filename) ==
    [k \in 1..Len(rows) |->
        [c \in DOMAIN rows[k] \cup {L_Ano, L_Trimestre} |->
            IF c = L_Ano THEN [kind |-> "int", s |-> IntText(AnoOf(filename))]
            ELSE IF c = L_Trimestre THEN StrCell(TrimestreText[TrimestreOf(filename)])
            ELSE rows[k][c]]]

\* one iteration of the loop of lines 58-111: the frame the file adds to
\* all_data, if any.  Nothing is added when the file cannot be read, lacks
\* the description column, makes .str raise, or has no matching row.
Contribution(f) ==
    IF ~f.readable THEN <<>>
    ELSE LET df == ReadCsv(f)
         IN  IF L_Descricao \notin df.cols THEN <<>>
             ELSE IF StrAccessorFails(df) THEN <<>>
             ELSE LET df_filtered == SelectSeq(df.rows, MaskCell)
                  IN  IF df_filtered = <<>> THEN <<>>
                      ELSE <<[cols |-> df.cols \cup {L_Ano, L_Trimestre},
                              rows |-> TaggedCells(df_filtered, f.name)]>>

\* all_data after the loop over csv_files
RECURSIVE AllData(_)
AllData(listing) ==
    IF listing = <<>> THEN <<>>
    ELSE Contribution(Head(listing)) \o AllData(Tail(listing))

\* the rows of the frames, each extended to the columns cols with NaN
RECURSIVE Reindexed(_, _)
Reindexed(frames, cols) ==
    IF frames = <<>> THEN <<>>
    ELSE [k \in 1..Len(Head(frames).rows) |->
             [c \in cols |-> IF c \in Head(frames).cols
                             THEN Head(frames).rows[k][c] ELSE NaN]]
         \o Reindexed(Tail(frames), cols)

\* pd.concat(all_data, ignore_index=True): the union of the columns; an
\* integer column that receives a NaN or a float becomes float64
ConcatCells(frames) ==
    LET cols == UNION {frames[i].cols : i \in 1..Len(frames)}
        rows == Reindexed(frames, cols)
        FloatCol(c) ==
            /\ \E k \in 1..Len(rows) : rows[k][c].kind \in {"nan", "float"}
            /\ \A k \in 1..Len(rows) : rows[k][c].kind # "str"
        Up(cell, c) ==
            IF cell.kind = "int" /\ FloatCol(c) THEN [kind |-> "float", s |-> cell.s]
            ELSE cell
    IN  [cols |-> cols,
         rows |-> [k \in 1..Len(rows) |-> [c \in cols |-> Up(rows[k][c], c)]]]

\* full_df['ValorDespesas'] != 0 on one row; NaN and text are not 0
NonZeroCell(row) ==
    ~(row[L_ValorDespesas].kind \in {"int", "float"} /\ row[L_ValorDespesas].s = <<"0">>)

\* to_csv on one cell: a missing value is written as an empty field
ToCsvField(cell) == IF cell.kind = "nan" THEN <<>> ELSE AsTypeStr(cell)

\* lines 113-149 on all_data: the file that the run leaves in the data
\* directory.  Nothing is written when all_data is empty or when line 128
\* raises KeyError.
Saved(frames, prev) ==
    IF frames = <<>> THEN prev
    ELSE LET cat == ConcatCells(frames)
         IN  IF L_ValorDespesas \notin cat.cols THEN prev
             ELSE LET kept == SelectSeq(DropDuplicates(cat.rows), NonZeroCell)
                      added == {LabelText["CNPJ"], LabelText["RazaoSocial"]} \ cat.cols
                      cols == cat.cols \cup added
                      keep == SelectSeq([i \in 1..Len(final_columns) |-> LabelText[final_columns[i]]],
                                        LAMBDA c : c \in cols)
                      Cell(row, c) == IF c \in added THEN StrCell(PlaceholderText) ELSE row[c]
                  IN  [exists |-> TRUE,
                       header |-> keep,
                       rows |-> [k \in 1..Len(kept) |->
                                   [i \in 1..Len(keep) |-> ToCsvField(Cell(kept[k], keep[i]))]]]

\* one run of process_data on the files that glob returns
process_data(listing, prev) == Saved(AllData(listing), prev)

(* The data directory *)

RegistryCsv ==
    [name |-> <<"R", "e", "l", "a", "t", "o", "r", "i", "o", "_", "c", "a", "d", "o", "p", ".", "c", "s", "v">>,
     readable |-> TRUE,
     header |-> <<<<"R", "e", "g", "i", "s", "t", "r", "o", "_", "A", "N", "S">>, <<"C", "N", "P", "J">>, <<"R", "a", "z", "a", "o", "_", "S", "o", "c", "i", "a", "l">>>>,
     rows |-> << <<<<"1">>, <<"1", "1", "2", "2", "2", "3", "3", "3", "0", "0", "0", "1", "8", "1">>, <<"A", "c", "m", "e">>>> >>]

\* a raw file with its cells written as text fields
AsText(f) ==
    [name |-> f.name,
     readable |-> f.readable,
     header |-> f.header,
     rows |-> [k \in 1..Len(f.rows) |->
                 [i \in 1..Len(f.header) |->
                     LET cell == f.rows[k][i]
                     IN  IF cell = Missing THEN <<>>
                         ELSE IF StandardLabel(f.header[i]) = L_Descricao THEN cell[1]
                         ELSE IntText(cell[1])]]]

RawNames ==
    << <<"1", "T", "2", "0", "2", "5", ".", "c", "s", "v">>,
       <<"d", "a", "d", "o", "s", ".", "c", "s", "v">> >>

\* one or two raw files of distinct names
RawDirectories ==
    {[i \in 1..n |-> AsText([name |-> RawNames[i], readable |-> c[i].readable,
                             header |-> c[i].header, rows |-> c[i].rows])] :
        n \in 1..2, c \in [1..2 -> FileContents]}

\* the previous output as glob finds it
OutputCsv ==
    [name |-> OUTPUT_CSV, readable |-> TRUE, header |-> out_file.header, rows |-> out_file.rows]

InsertAt(seq, pos, x) == SubSeq(seq, 1, pos) \o <<x>> \o SubSeq(seq, pos + 1, Len(seq))

\* glob.glob(DATA_DIR/*.csv): every .csv file of the directory, the previous
\* output included, in the order the file system lists them
Listings ==
    LET base == raw_files \o <<RegistryCsv>>
    IN  IF out_file.exists
        THEN {InsertAt(base, pos, OutputCsv) : pos \in 0..Len(base)}
        ELSE {base}

InitRerun ==
    /\ pc = "rerun"
    /\ raw_files \in RawDirectories
    /\ out_file = NoOutput
    /\ runs = 0
    /\ JoinIdle
    /\ ApiIdle
    /\ KeyIdle
    /\ CnpjIdle
    /\ MapIdle
    /\ ProcIdle

\* one run of the consolidation step
RunProcessData ==
    /\ pc = "rerun"
    /\ runs < MaxRuns
    /\ \E listing \in Listings : out_file' = process_data(listing, out_file)
    /\ runs' = runs + 1
    /\ UNCHANGED <<pc, raw_files, keyVars, cnpjVars, mapVars, procVars, joinVars, apiVars>>

NextRerun == RunProcessData

SpecRerun == InitRerun /\ [][NextRerun]_vars

\* the file the first run writes for the raw files of the directory
FirstOutput == process_data(raw_files \o <<RegistryCsv>>, NoOutput)

\* C19: after any number of runs on the same raw files the data directory
\* holds the consolidated file that the first run wrote.
C19_RerunIdempotent ==
    (pc = "rerun" /\ runs >= 1) => out_file = FirstOutput

=============================================================================
